---- MODULE Spec2Model ----
(***************************************************************************)
(* A model of the agent orchestration layer of Professor_Profiler:          *)
(*   src/google/adk/agents/agent.py   (class Agent)                         *)
(*   src/google/adk/runners/runner.py (class Runner)                        *)
(*   src/profiler_agent/agent.py and sub_agents/*.py (the wired pipeline)   *)
(*                                                                         *)
(* Python strings are modelled as sequences of tokens (each token a piece   *)
(* of text), so that concatenation, formatting and JSON serialisation are   *)
(* computed rather than assumed.  Coroutines run on one asyncio event loop: *)
(* a task runs without interruption until it awaits the backend, which is   *)
(* the variable `active`.                                                   *)
(***************************************************************************)
EXTENDS Integers, Sequences, FiniteSets, TLC

VARIABLES
    sub_agents,   \* Agent.sub_agents of every agent (fixed by construction)
    tools,        \* Agent.tools of every agent (fixed by construction)
    client,       \* Agent.client of every agent
    context,      \* Agent.context of every agent: a reference into ctxHeap
    ctxHeap,      \* the dict objects that exist; a reference is an index
    tasks,        \* the top-level coroutines `await agent.run(...)`
    active,       \* the task the event loop is running now, 0 when none
    backendLog,   \* every generate_content request issued, in order
    runLog,       \* every invocation of Agent.run, in order
    toolLog,      \* every invocation of a tool's executable, in order
    cbLog,        \* every invocation of an after_agent_callback, in order
    retLog,       \* every way an invocation of Agent.run has ended, in order
    events,       \* what Runner.run_async has yielded, in order
    runnerCalls,  \* how many times Runner.run_async has been called
    faults,       \* how many injected failures the environment has used
    questions_data,  \* the argument of a call of analyze_statistics, if any
    statistics       \* what that call has returned, once it has

vars == <<sub_agents, tools, client, context, ctxHeap, tasks, active,
          backendLog, runLog, toolLog, cbLog, retLog, events,
          runnerCalls, faults, questions_data, statistics>>

(***************************************************************************)
(* Bounds of the model.                                                     *)
(***************************************************************************)
MaxFaults == 1     \* failures the environment injects in one behaviour
MaxEvents == 1     \* Runner.run_async invocations
MaxQuestions == 3  \* elements in the list given to analyze_statistics

\* A behaviour follows one top-level invocation of Agent.run, made directly
\* on an agent, or else calls of the Runner.
TaskIds == {1}

(***************************************************************************)
(* Python values.                                                           *)
(***************************************************************************)
None == "<None>"            \* None where a name or a key is expected
PyNone == <<"<None>">>      \* None where a text is expected
EmptyStr == <<>>            \* ""

\* str(x) and the {x} of an f-string
Str(x) == IF x = PyNone THEN <<"None">> ELSE x

\* "".join over a sequence of texts with a separator text
RECURSIVE JoinTexts(_, _)
JoinTexts(sep, texts) ==
    IF texts = <<>> THEN <<>>
    ELSE IF Len(texts) = 1 THEN texts[1]
    ELSE texts[1] \o sep \o JoinTexts(sep, Tail(texts))

(***************************************************************************)
(* json.dumps and json.loads on the objects that occur: a dict of string    *)
(* keys and string values, given as a sequence of <<key, value>> pairs,     *)
(* each key and value a text.                                               *)
(***************************************************************************)
Quoted(s) == <<"\"">> \o s \o <<"\"">>

JsonMember(pair) == Quoted(pair[1]) \o <<": ">> \o Quoted(pair[2])

RECURSIVE JsonMembers(_)
JsonMembers(obj) ==
    IF obj = <<>> THEN <<>>
    ELSE IF Len(obj) = 1 THEN JsonMember(obj[1])
    ELSE JsonMember(obj[1]) \o <<", ">> \o JsonMembers(Tail(obj))

JsonDumps(obj) == <<"{">> \o JsonMembers(obj) \o <<"}">>

\* the index of the first quote token at or after i, 0 when there is none
RECURSIVE ClosingQuote(_, _)
ClosingQuote(toks, i) ==
    IF i > Len(toks) THEN 0
    ELSE IF toks[i] = "\"" THEN i
    ELSE ClosingQuote(toks, i + 1)

Tok(toks, i) == IF i >= 1 /\ i <= Len(toks) THEN toks[i] ELSE "<eof>"

\* members from position i on, acc the pairs read so far; <<>> wrapped in a
\* record with ok = FALSE when the text is not an object of this shape
RECURSIVE ParseMembers(_, _, _)
ParseMembers(toks, i, acc) ==
    LET j == ClosingQuote(toks, i + 1)
        k == ClosingQuote(toks, j + 3)
        well == /\ Tok(toks, i) = "\""
                /\ j > 0
                /\ Tok(toks, j + 1) = ": "
                /\ Tok(toks, j + 2) = "\""
                /\ k > 0
        pair == <<SubSeq(toks, i + 1, j - 1), SubSeq(toks, j + 3, k - 1)>>
    IN  IF ~well THEN [ok |-> FALSE, value |-> <<>>]
        ELSE IF Tok(toks, k + 1) = "}" /\ k + 1 = Len(toks)
             THEN [ok |-> TRUE, value |-> Append(acc, pair)]
        ELSE IF Tok(toks, k + 1) = ", "
             THEN ParseMembers(toks, k + 2, Append(acc, pair))
        ELSE [ok |-> FALSE, value |-> <<>>]

JsonLoads(text) ==
    IF Tok(text, 1) /= "{" THEN [ok |-> FALSE, value |-> <<>>]
    ELSE IF Len(text) = 2 /\ text[2] = "}" THEN [ok |-> TRUE, value |-> <<>>]
    ELSE ParseMembers(text, 2, <<>>)

(***************************************************************************)
(* The agents that are constructed (src/profiler_agent).                    *)
(***************************************************************************)
Root == "professor_profiler_agent"
Agents == {Root, "taxonomist", "trend_spotter", "strategist"}

output_key(a) ==
    CASE a = "taxonomist" -> "tagged_questions"
      [] a = "trend_spotter" -> "trend_report"
      [] a = "strategist" -> "final_study_plan"
      [] OTHER -> None

after_agent_callback(a) == a \in {"taxonomist", "trend_spotter"}

\* a variant that registers trend_spotter ahead of taxonomist
WiredOutOfOrder == [a \in Agents |->
            IF a = Root THEN <<"trend_spotter", "taxonomist", "strategist">>
            ELSE <<>>]

\* professor_profiler_agent as wired: three sub-agents in this order
Wired == [a \in Agents |->
            IF a = Root THEN <<"taxonomist", "trend_spotter", "strategist">>
            ELSE <<>>]

\* the same agents composed two levels deep (Agent accepts any sub_agents)
Nested == [a \in Agents |->
            CASE a = Root -> <<"taxonomist">>
              [] a = "taxonomist" -> <<"trend_spotter", "strategist">>
              [] OTHER -> <<>>]

Topologies == {Wired, Nested}

(***************************************************************************)
(* Tools are duck-typed: Agent probes them with hasattr.                    *)
(***************************************************************************)
ToolName == "read_pdf_content"
UnknownToolName == "foo"

Tool(hasExecute, executeAsync, hasFunc, funcAsync) ==
    [name |-> ToolName, hasExecute |-> hasExecute, executeAsync |-> executeAsync,
     hasFunc |-> hasFunc, funcAsync |-> funcAsync, hasDeclaration |-> TRUE]

ToolShapes ==
    { Tool(TRUE, TRUE, FALSE, FALSE),     \* async def execute(**kwargs)
      Tool(TRUE, FALSE, FALSE, FALSE),    \* def execute(**kwargs)
      Tool(FALSE, FALSE, TRUE, FALSE),    \* func: a plain function
      Tool(FALSE, FALSE, TRUE, TRUE) }    \* func: an async function

CallArgs == << << <<"file_path">>, <<"x.pdf">> >> >>

PdfResult == << << <<"filename">>, <<"x.pdf">> >>, << <<"content">>, <<"...">> >> >>

(***************************************************************************)
(* Execution contexts: dicts on the heap.  A dict is the sequence of its    *)
(* items in insertion order; a value is an int, or a list of items.         *)
(***************************************************************************)
EmptyDict == <<>>
IntValue(n) == [type |-> "int", items |-> <<n>>]
ListValue(items) == [type |-> "list", items |-> items]

CtxA == << [key |-> "a", value |-> IntValue("1")],
           [key |-> "b", value |-> ListValue(<<"1", "2">>)] >>
\* a list holding an object json cannot serialise
CtxBad == << [key |-> "c", value |-> ListValue(<<"<object>">>)] >>

\* the dict of a second caller
CtxB == << [key |-> "b", value |-> IntValue("2")] >>

\* what a caller may pass as `context`: None (<<>> here) or a dict it built
CallerContexts == { <<>>, <<EmptyDict>>, <<CtxA>>, <<CtxBad>> }

Prompts == { <<"Analyze x.pdf">> }

\* json.dumps(value, indent=2) of a list
RECURSIVE IndentedItems(_)
IndentedItems(items) ==
    IF items = <<>> THEN <<>>
    ELSE <<"\n  ", items[1]>> \o (IF Len(items) > 1 THEN <<",">> ELSE <<>>)
         \o IndentedItems(Tail(items))

Serializable(value) == \A i \in 1..Len(value.items) : value.items[i] /= "<object>"

JsonDumpsIndent(value) ==
    IF value.items = <<>> THEN <<"[]">>
    ELSE <<"[">> \o IndentedItems(value.items) \o <<"\n", "]">>

(***************************************************************************)
(* Agent._build_system_instruction, _build_full_prompt,                     *)
(* _prepare_tool_config                                                     *)
(***************************************************************************)
RECURSIVE CommaJoin(_)
CommaJoin(names) ==
    IF names = <<>> THEN <<>>
    ELSE IF Len(names) = 1 THEN <<names[1]>>
    ELSE <<names[1], ", ">> \o CommaJoin(Tail(names))

_build_system_instruction(a) ==
    JoinTexts(<<"\n\n">>,
        << <<"Role: ", "<description>">>, <<"Instructions: ", "<instruction>">> >>
        \o (IF tools[a] /= <<>>
            THEN << <<"Available tools: ">>
                    \o CommaJoin([i \in 1..Len(tools[a]) |-> tools[a][i].name]) >>
            ELSE <<>>)
        \o (IF sub_agents[a] /= <<>>
            THEN << <<"Sub-agents: ">> \o CommaJoin(sub_agents[a]) >>
            ELSE <<>>))

RECURSIVE ContextLines(_)
ContextLines(dict) ==
    IF dict = <<>> THEN <<>>
    ELSE <<"- ", dict[1].key, ": ">>
         \o (IF dict[1].value.type = "list"
             THEN JsonDumpsIndent(dict[1].value)
             ELSE dict[1].value.items)
         \o <<"\n">> \o ContextLines(Tail(dict))

\* TRUE when _build_full_prompt raises TypeError: json.dumps of a value that
\* is not serialisable, or None + str
FullPromptRaises(prompt, dict) ==
    /\ dict /= <<>>
    /\ \/ prompt = PyNone
       \/ \E i \in 1..Len(dict) :
            dict[i].value.type = "list" /\ ~Serializable(dict[i].value)

\* a variant that appends the context block even for an empty context
AlwaysContextBlock(prompt, dict) ==
    prompt \o <<"\n\nContext:\n">> \o ContextLines(dict)

_build_full_prompt(prompt, dict) ==
    IF dict = <<>> THEN prompt
    ELSE prompt \o <<"\n\nContext:\n">> \o ContextLines(dict)

\* TRUE when a tool configuration is passed to the backend
_prepare_tool_config(a) ==
    \E i \in 1..Len(tools[a]) : tools[a][i].hasDeclaration

(***************************************************************************)
(* Envelopes (the dicts Agent.run returns)                                  *)
(***************************************************************************)
SuccessEnvelope(a, response) ==
    [agent |-> a, response |-> response, output_key |-> output_key(a)]

\* a variant that also carries an empty response
ErrorEnvelopeWithResponse(a, message) ==
    [agent |-> a, error |-> message, response |-> EmptyStr,
     output_key |-> output_key(a)]

ErrorEnvelope(a, message) ==
    [agent |-> a, error |-> message, output_key |-> output_key(a)]

IsError(env) == "error" \in DOMAIN env

NotInitialized(a) == <<"Agent ", a, " not initialized with client">>

(***************************************************************************)
(* Backend responses (google.genai GenerateContentResponse).  An optional   *)
(* attribute is a sequence of length 0 or 1.                                *)
(***************************************************************************)
TextPart(t) == [text |-> t, function_call |-> <<>>]
CallPart(name) ==
    [text |-> PyNone, function_call |-> <<[name |-> name, args |-> CallArgs]>>]
Candidate(parts) == [content |-> <<[parts |-> parts]>>]

Replies == { <<"reply A">>, <<"reply B">> }

TextResponses ==
    { [candidates |-> <<Candidate(<<TextPart(r)>>)>>, text |-> <<r>>] : r \in Replies }

\* the function call comes after a text part
CallResponses ==
    { [candidates |-> <<Candidate(<<TextPart(<<"calling">>), CallPart(n)>>)>>,
       text |-> << <<"calling">> >>] : n \in {ToolName, UnknownToolName} }

NoCandidates == [candidates |-> <<>>, text |-> <<PyNone>>]
NoParts == [candidates |-> <<Candidate(<<>>)>>, text |-> <<PyNone>>]
NoneText == [candidates |-> <<Candidate(<<TextPart(PyNone)>>)>>, text |-> <<PyNone>>]
NoContent == [candidates |-> <<[content |-> <<>>]>>, text |-> <<PyNone>>]
\* a response object without a `text` attribute
Bare == [candidates |-> <<>>, text |-> <<>>]

EmptyResponses == {NoCandidates, NoParts, NoneText, NoContent, Bare}

\* function calls are only answered to requests that declared tools
Responses(toolConfig) ==
    TextResponses \cup EmptyResponses
    \cup (IF toolConfig THEN CallResponses ELSE {})

ToolOutcomes == {"return", "raise"}

(***************************************************************************)
(* Agent._execute_tool_call and Agent._execute_llm, from the response on.   *)
(* The result is [raised, text, calls]: the text returned or the message    *)
(* of the exception raised, and the tool invocations made.                  *)
(***************************************************************************)
Returned(text, calls) == [raised |-> FALSE, text |-> text, calls |-> calls]
Raised(message, calls) == [raised |-> TRUE, text |-> message, calls |-> calls]

Min(S) == CHOOSE x \in S : \A y \in S : x <= y

\* a variant that returns the message without serialising it
ToolNotFoundRaw(name) == <<"Tool ", name, " not found">>

ToolNotFound(name) ==
    JsonDumps(<< << <<"error">>, <<"Tool ", name, " not found">> >> >>)

_execute_tool_call(a, function_call, toolOutcome) ==
    LET ts == tools[a]
        hits == {i \in 1..Len(ts) :
                    /\ ts[i].name = function_call.name
                    /\ (ts[i].hasExecute \/ ts[i].hasFunc)}
        tool == ts[Min(hits)]
        call == [agent |-> a, tool |-> tool.name, kwargs |-> function_call.args,
                 ran |-> TRUE, result |-> <<>>]
    IN  IF hits = {} THEN Returned(ToolNotFound(function_call.name), <<>>)
        ELSE IF tool.hasExecute
        THEN IF tool.executeAsync
             THEN IF toolOutcome = "raise"
                  THEN Raised(<<"tool failed">>, <<call>>)
                  ELSE Returned(JsonDumps(PdfResult),
                                <<[call EXCEPT !.result = <<PdfResult>>]>>)
             \* `await` of what a plain function returned
             ELSE IF toolOutcome = "raise"
                  THEN Raised(<<"tool failed">>, <<call>>)
                  ELSE Raised(<<"object dict can't be used in 'await' expression">>,
                              <<[call EXCEPT !.result = <<PdfResult>>]>>)
        ELSE IF tool.funcAsync
             \* the coroutine object is never awaited: the body does not run
             THEN Raised(<<"Object of type coroutine is not JSON serializable">>,
                         <<[call EXCEPT !.ran = FALSE]>>)
             ELSE IF toolOutcome = "raise"
                  THEN Raised(<<"tool failed">>, <<call>>)
                  ELSE Returned(JsonDumps(PdfResult),
                                <<[call EXCEPT !.result = <<PdfResult>>]>>)

_execute_llm(a, response, toolOutcome) ==
    IF response.candidates /= <<>>
    THEN LET candidate == response.candidates[1] IN
         IF candidate.content = <<>>
         THEN Raised(<<"'NoneType' object has no attribute 'parts'">>, <<>>)
         ELSE LET parts == candidate.content[1].parts
                  calls == {i \in 1..Len(parts) : parts[i].function_call /= <<>>}
              IN  IF parts = <<>>
                  THEN IF response.text /= <<>>
                       THEN Returned(Str(response.text[1]), <<>>)
                       ELSE Returned(EmptyStr, <<>>)
                  ELSE IF calls /= {}
                  THEN _execute_tool_call(a, parts[Min(calls)].function_call[1],
                                          toolOutcome)
                  ELSE Returned(parts[1].text, <<>>)
    ELSE IF response.text /= <<>>
         THEN Returned(Str(response.text[1]), <<>>)
         ELSE Returned(EmptyStr, <<>>)

(***************************************************************************)
(* State after construction                                                 *)
(***************************************************************************)
AgentIndex(a) ==
    CASE a = Root -> 1
      [] a = "taxonomist" -> 2
      [] a = "trend_spotter" -> 3
      [] OTHER -> 4

IdleTask == [status |-> "idle", stack |-> <<>>, result |-> <<>>, error |-> <<>>]

Init ==
    /\ sub_agents \in Topologies
    /\ \E shape \in ToolShapes :
          tools = [a \in Agents |-> IF a = Root THEN <<shape>> ELSE <<>>]
    /\ client = [a \in Agents |-> None]
    \* self.context = {} : every agent starts with a dict of its own
    /\ ctxHeap = <<EmptyDict, EmptyDict, EmptyDict, EmptyDict>>
    /\ context = [a \in Agents |-> AgentIndex(a)]
    /\ tasks = [t \in TaskIds |-> IdleTask]
    /\ active = 0
    /\ backendLog = <<>>
    /\ runLog = <<>>
    /\ toolLog = <<>>
    /\ cbLog = <<>>
    /\ retLog = <<>>
    /\ events = <<>>
    /\ runnerCalls = 0
    /\ faults = 0
    /\ questions_data = <<>>
    /\ statistics = <<>>

(***************************************************************************)
(* Agent.initialize                                                         *)
(***************************************************************************)
Clients == {"client 1", "client 2"}

\* a and every agent reachable from a through sub_agents
RECURSIVE Reachable(_, _)
Reachable(a, depth) ==
    {a} \cup (IF depth = 0 THEN {}
              ELSE UNION {Reachable(sub_agents[a][i], depth - 1) :
                            i \in 1..Len(sub_agents[a])})

Descendants(a) == Reachable(a, Cardinality(Agents))

\* a variant that does not recurse into the sub-agents' sub-agents
initializeShallow(a, c) ==
    [b \in Agents |->
        IF b = a \/ \E i \in 1..Len(sub_agents[a]) : sub_agents[a][i] = b
        THEN c ELSE client[b]]

initialize(a, c) ==
    [b \in Agents |-> IF b \in Descendants(a) THEN c ELSE client[b]]

NoRunYet == \A t \in DOMAIN tasks : tasks[t].status = "idle"

Initialize(a, c) ==
    /\ active = 0
    /\ NoRunYet
    /\ client[a] = None
    /\ client' = initialize(a, c)
    /\ UNCHANGED <<sub_agents, tools, context, ctxHeap, tasks, active,
                   backendLog, runLog, toolLog, cbLog, retLog, events,
                   runnerCalls, faults,
                   questions_data, statistics>>

(***************************************************************************)
(* Agent.run, lines 89-102 and the request of line 248: from the call to    *)
(* the first suspension.  ctxArg is the `context` argument, a heap          *)
(* reference or 0 for None.                                                 *)
(***************************************************************************)
\* run and call are the frame's places in runLog and backendLog
Frame(a, prompt, run, call) ==
    [agent |-> a, prompt |-> prompt, pc |-> "llm", response |-> EmptyStr,
     results |-> <<>>, idx |-> 0, run |-> run, call |-> call]

Pending(t, run, request) ==
    [task |-> t, run |-> run, request |-> request, outcome |-> "pending",
     response |-> <<>>, result |-> <<>>]

ReturnEntry(t, f, env) ==
    [task |-> t, run |-> f.run, agent |-> f.agent, raised |-> FALSE,
     envelope |-> <<env>>, message |-> <<>>]

RaiseEntry(t, run, a, message) ==
    [task |-> t, run |-> run, agent |-> a, raised |-> TRUE,
     envelope |-> <<>>, message |-> message]

\* the items of the dict a reference names, none for None
Items(heap, ref) == IF ref = 0 THEN <<>> ELSE heap[ref]

Enter(a, prompt, ctxArg, heap) ==
    IF client[a] = None
    THEN [raised |-> TRUE, message |-> NotInitialized(a), heap |-> heap,
          self_context |-> context[a], request |-> <<>>]
    ELSE LET fresh == ctxArg = 0 \/ heap[ctxArg] = <<>>     \* context or {}
             heap2 == IF fresh THEN Append(heap, EmptyDict) ELSE heap
             ref == IF fresh THEN Len(heap2) ELSE ctxArg
         IN  IF FullPromptRaises(prompt, heap2[ref])
             THEN [raised |-> TRUE, message |-> <<"TypeError">>, heap |-> heap2,
                   self_context |-> ref, request |-> <<>>]
             ELSE [raised |-> FALSE, message |-> <<>>, heap |-> heap2,
                   self_context |-> ref,
                   request |-> <<[agent |-> a, client |-> client[a],
                                  contents |-> _build_full_prompt(prompt, heap2[ref]),
                                  system_instruction |-> _build_system_instruction(a),
                                  tools |-> _prepare_tool_config(a)]>>]

\* a variant that carries the sub-agent's text forward as the next prompt
AppendResultForwarded(f, env) ==
    LET sub == sub_agents[f.agent][f.idx]
        response_text == IF "response" \in DOMAIN env THEN env.response ELSE EmptyStr
    IN  [f EXCEPT !.results = Append(@, <<"\n[", sub, " Response]\n">>
                                        \o Str(response_text)),
                  !.response = response_text,
                  !.idx = @ + 1]

\* the caller's frame once a sub-agent's envelope has come back (lines 297-298)
AppendResult(f, env) ==
    LET sub == sub_agents[f.agent][f.idx]
        response_text == IF "response" \in DOMAIN env THEN env.response ELSE EmptyStr
    IN  [f EXCEPT !.results = Append(@, <<"\n[", sub, " Response]\n">>
                                        \o Str(response_text)),
                  !.idx = @ + 1]

\* the task once the frame above `below` has returned env
Return(task, below, env) ==
    IF below = <<>>
    THEN [task EXCEPT !.status = "returned", !.stack = <<>>, !.result = <<env>>]
    ELSE [task EXCEPT !.stack =
            [below EXCEPT ![Len(below)] = AppendResult(below[Len(below)], env)]]

Top(t) == tasks[t].stack[Len(tasks[t].stack)]
Below(t) == SubSeq(tasks[t].stack, 1, Len(tasks[t].stack) - 1)
Running(t) == tasks[t].status = "running"

\* a coroutine `agent.run(prompt, context)` is started by the event loop
Start(t, a, prompt, callerCtx) ==
    /\ active = 0
    /\ tasks[t].status = "idle"
    /\ LET heap1 == IF callerCtx = <<>> THEN ctxHeap
                    ELSE Append(ctxHeap, callerCtx[1])
           ctxArg == IF callerCtx = <<>> THEN 0 ELSE Len(heap1)
           e == Enter(a, prompt, ctxArg, heap1)
       IN  /\ ctxHeap' = e.heap
           /\ context' = [context EXCEPT ![a] = e.self_context]
           /\ runLog' = Append(runLog, [task |-> t, agent |-> a, prompt |-> prompt,
                                        context |-> ctxArg,
                                        items |-> Items(heap1, ctxArg),
                                        caller |-> None, parent |-> 0])
           /\ backendLog' = backendLog
                \o [i \in 1..Len(e.request) |->
                        Pending(t, Len(runLog) + 1, e.request[i])]
           /\ retLog' = IF e.raised
                        THEN Append(retLog, RaiseEntry(t, Len(runLog) + 1, a, e.message))
                        ELSE retLog
           /\ tasks' = [tasks EXCEPT ![t] =
                IF e.raised
                THEN [@ EXCEPT !.status = "raised", !.error = <<e.message>>]
                ELSE [@ EXCEPT !.status = "running",
                               !.stack = <<Frame(a, prompt, Len(runLog) + 1,
                                                 Len(backendLog) + 1)>>]]
    /\ UNCHANGED <<sub_agents, tools, client, active, toolLog, cbLog,
                   events, runnerCalls, faults,
                   questions_data, statistics>>

\* a top-level run; such runs are made one after the other, in the order of
\* their ids
RunCall(t, a, prompt, callerCtx) ==
    /\ events = <<>>
    /\ \A u \in DOMAIN tasks : u < t => tasks[u].status \in {"returned", "raised"}
    /\ Start(t, a, prompt, callerCtx)

(***************************************************************************)
(* The await of line 248 ends: the backend raises, or answers.              *)
(***************************************************************************)
BackendError == <<"backend unavailable">>

\* the frame once _execute_llm has returned: lines 113-114 and 290
Respond(f, out) ==
    IF sub_agents[f.agent] /= <<>>
    THEN [f EXCEPT !.pc = "subs", !.response = out.text, !.idx = 1,
                   !.results = << <<"[", f.agent, " Initial Response]\n">>
                                  \o Str(out.text) >>]
    ELSE [f EXCEPT !.pc = "post", !.response = out.text]

\* a variant that swallows the exception and goes on with an empty response
BackendRaiseSwallowed(t) ==
    /\ active = 0
    /\ Running(t)
    /\ Top(t).pc = "llm"
    /\ faults < MaxFaults
    /\ faults' = faults + 1
    /\ tasks' = [tasks EXCEPT ![t].stack[Len(tasks[t].stack)] =
                    Respond(Top(t), Returned(EmptyStr, <<>>))]
    /\ backendLog' = [backendLog EXCEPT ![Top(t).call].outcome = "raised"]
    /\ active' = t
    /\ UNCHANGED <<sub_agents, tools, client, context, ctxHeap, retLog,
                   runLog, toolLog, cbLog, events, runnerCalls,
                   questions_data, statistics>>

\* the exception is caught at line 131
BackendRaise(t) ==
    /\ active = 0
    /\ Running(t)
    /\ Top(t).pc = "llm"
    /\ faults < MaxFaults
    /\ faults' = faults + 1
    /\ LET env == ErrorEnvelope(Top(t).agent, BackendError)
       IN  /\ tasks' = [tasks EXCEPT ![t] = Return(@, Below(t), env)]
           /\ retLog' = Append(retLog, ReturnEntry(t, Top(t), env))
           /\ backendLog' = [backendLog EXCEPT ![Top(t).call].outcome = "raised"]
           /\ active' = IF Below(t) = <<>> THEN 0 ELSE t
    /\ UNCHANGED <<sub_agents, tools, client, context, ctxHeap,
                   runLog, toolLog, cbLog, events, runnerCalls,
                   questions_data, statistics>>

BackendRespond(t, response, toolOutcome) ==
    /\ active = 0
    /\ Running(t)
    /\ Top(t).pc = "llm"
    /\ LET f == Top(t)
           out == _execute_llm(f.agent, response, toolOutcome)
           fault == (IF response \in EmptyResponses THEN 1 ELSE 0)
                    + (IF out.calls /= <<>> /\ toolOutcome = "raise" THEN 1 ELSE 0)
       IN  /\ response \in Responses(_prepare_tool_config(f.agent))
           \* the tool's outcome is an input only when a tool body runs
           /\ toolOutcome = "raise" =>
                \E i \in 1..Len(out.calls) : out.calls[i].ran
           /\ faults + fault <= MaxFaults
           /\ faults' = faults + fault
           /\ toolLog' = toolLog
                \o [i \in 1..Len(out.calls) |->
                        [task |-> t, run |-> f.run, call |-> out.calls[i]]]
           /\ backendLog' = [backendLog EXCEPT ![f.call] =
                [@ EXCEPT !.outcome = "answered", !.response = <<response>>,
                          !.result = IF out.raised THEN <<>> ELSE <<out.text>>]]
           /\ retLog' = IF out.raised
                        THEN Append(retLog,
                                ReturnEntry(t, f, ErrorEnvelope(f.agent, out.text)))
                        ELSE retLog
           /\ tasks' = [tasks EXCEPT ![t] =
                IF out.raised
                THEN Return(@, Below(t), ErrorEnvelope(f.agent, out.text))
                ELSE [@ EXCEPT !.stack[Len(@.stack)] = Respond(f, out)]]
           /\ active' = IF out.raised /\ Below(t) = <<>> THEN 0 ELSE t
    /\ UNCHANGED <<sub_agents, tools, client, context, ctxHeap,
                   runLog, cbLog, events, runnerCalls,
                   questions_data, statistics>>

(***************************************************************************)
(* Agent._execute_sub_agents: one turn of the loop of lines 292-296, up to  *)
(* the sub-agent's first suspension.                                        *)
(***************************************************************************)
\* a variant that hands each sub-agent the output of the one before it
SubAgentPromptChained(f) ==
    IF Len(f.results) > 1 THEN f.results[Len(f.results)] ELSE f.response

\* the arguments of line 293-296
SubAgentPrompt(f) == f.response
SubAgentContext(f) == context[f.agent]

SubAgentCall(t) ==
    /\ active = t
    /\ Running(t)
    /\ Top(t).pc = "subs"
    /\ Top(t).idx <= Len(sub_agents[Top(t).agent])
    /\ LET f == Top(t)
           sub == sub_agents[f.agent][f.idx]
           e == Enter(sub, SubAgentPrompt(f), SubAgentContext(f), ctxHeap)
       IN  /\ ctxHeap' = e.heap
           /\ context' = [context EXCEPT ![sub] = e.self_context]
           /\ runLog' = Append(runLog, [task |-> t, agent |-> sub,
                                        prompt |-> SubAgentPrompt(f),
                                        context |-> SubAgentContext(f),
                                        items |-> Items(ctxHeap, SubAgentContext(f)),
                                        caller |-> f.agent, parent |-> f.run])
           /\ backendLog' = backendLog
                \o [i \in 1..Len(e.request) |->
                        Pending(t, Len(runLog) + 1, e.request[i])]
           \* an exception leaves the sub-agent's run and is caught by the
           \* caller at line 131
           /\ retLog' = IF e.raised
                        THEN retLog
                             \o <<RaiseEntry(t, Len(runLog) + 1, sub, e.message),
                                  ReturnEntry(t, f, ErrorEnvelope(f.agent, e.message))>>
                        ELSE retLog
           /\ tasks' = [tasks EXCEPT ![t] =
                IF e.raised
                THEN Return(@, Below(t), ErrorEnvelope(f.agent, e.message))
                ELSE [@ EXCEPT !.stack = Append(@, Frame(sub, SubAgentPrompt(f),
                                                         Len(runLog) + 1,
                                                         Len(backendLog) + 1))]]
           /\ active' = IF e.raised /\ Below(t) /= <<>> THEN t ELSE 0
    /\ UNCHANGED <<sub_agents, tools, client, toolLog, cbLog, events,
                   runnerCalls, faults,
                   questions_data, statistics>>

(***************************************************************************)
(* Agent.run, lines 300 and 116-129: join the transcript, call the          *)
(* callback, return the envelope.                                           *)
(***************************************************************************)
CallbackOutcomes == {"falsy", "truthy", "raise"}
CallbackValue == <<"<callback result>">>

FinalResponse(f) ==
    IF sub_agents[f.agent] /= <<>> THEN JoinTexts(<<"\n">>, f.results)
    ELSE f.response

\* a variant that calls the callback and keeps the response whatever it returns
RunEnvelopeKeepsResponse(f, cbOutcome) ==
    IF ~after_agent_callback(f.agent) THEN SuccessEnvelope(f.agent, FinalResponse(f))
    ELSE IF cbOutcome = "raise" THEN ErrorEnvelope(f.agent, <<"callback failed">>)
    ELSE SuccessEnvelope(f.agent, FinalResponse(f))

RunEnvelope(f, cbOutcome) ==
    IF ~after_agent_callback(f.agent) THEN SuccessEnvelope(f.agent, FinalResponse(f))
    ELSE IF cbOutcome = "raise" THEN ErrorEnvelope(f.agent, <<"callback failed">>)
    ELSE IF cbOutcome = "truthy" THEN SuccessEnvelope(f.agent, CallbackValue)
    ELSE SuccessEnvelope(f.agent, FinalResponse(f))

RunReturn(t, cbOutcome) ==
    /\ active = t
    /\ Running(t)
    /\ \/ Top(t).pc = "post"
       \/ Top(t).pc = "subs" /\ Top(t).idx > Len(sub_agents[Top(t).agent])
    /\ LET f == Top(t)
           called == after_agent_callback(f.agent)
           fault == IF called /\ cbOutcome = "raise" THEN 1 ELSE 0
       IN  /\ ~called => cbOutcome = "falsy"
           /\ faults + fault <= MaxFaults
           /\ faults' = faults + fault
           /\ cbLog' = IF called
                       THEN Append(cbLog, [task |-> t, run |-> f.run,
                                           agent |-> f.agent,
                                           response |-> FinalResponse(f),
                                           outcome |-> cbOutcome])
                       ELSE cbLog
           /\ retLog' = Append(retLog, ReturnEntry(t, f, RunEnvelope(f, cbOutcome)))
           /\ tasks' = [tasks EXCEPT ![t] =
                            Return(@, Below(t), RunEnvelope(f, cbOutcome))]
           /\ active' = IF Below(t) = <<>> THEN 0 ELSE t
    /\ UNCHANGED <<sub_agents, tools, client, context, ctxHeap,
                   backendLog, runLog, toolLog, events, runnerCalls,
                   questions_data, statistics>>

(***************************************************************************)
(* Runner.run_async                                                         *)
(***************************************************************************)
\* new_message: absent (<<>>), or a Content; a part's text attribute is
\* absent (<<>>) or holds a text
Part(text) == [text |-> text]
Messages ==
    { <<>>,
      <<[parts |-> <<>>]>>,
      <<[parts |-> <<Part(<<>>)>>]>>,
      <<[parts |-> <<Part(<< <<"Analyze x.pdf">> >>)>>]>>,
      <<[parts |-> <<Part(<< <<"Hello">> >>), Part(<< <<"again">> >>)>>]>> }

\* a variant that never reads the message
RunnerTextDefault(new_message) == <<"mock response">>

RunnerText(new_message) ==
    IF new_message /= <<>> /\ Len(new_message[1].parts) > 0
    THEN IF new_message[1].parts[1].text /= <<>>
         THEN new_message[1].parts[1].text[1]
         ELSE <<"mock response">>
    ELSE <<"mock response">>

run_async(new_message) ==
    <<[text |-> RunnerText(new_message), is_final_response |-> TRUE,
       new_message |-> new_message]>>

RunnerRunAsync(new_message) ==
    /\ active = 0
    /\ NoRunYet
    /\ runnerCalls < MaxEvents
    /\ events' = events \o run_async(new_message)
    /\ runnerCalls' = runnerCalls + 1
    /\ UNCHANGED <<sub_agents, tools, client, context, ctxHeap, tasks, active,
                   backendLog, runLog, toolLog, cbLog, retLog, faults,
                   questions_data, statistics>>

Next ==
    \/ \E a \in Agents, c \in Clients : Initialize(a, c)
    \/ \E t \in TaskIds, a \in Agents, p \in Prompts, cc \in CallerContexts :
          RunCall(t, a, p, cc)
    \/ \E t \in TaskIds : BackendRaise(t)
    \/ \E t \in TaskIds, r \in Responses(TRUE), o \in ToolOutcomes :
          BackendRespond(t, r, o)
    \/ \E t \in TaskIds : SubAgentCall(t)
    \/ \E t \in TaskIds, o \in CallbackOutcomes : RunReturn(t, o)
    \/ \E m \in Messages : RunnerRunAsync(m)

Spec == Init /\ [][Next]_vars

\* The same system with the root's tool a wrapped plain function, as
\* src/profiler_agent/agent.py registers read_pdf_content: delegation and
\* callbacks do not depend on how a tool is invoked.
InitDelegation ==
    /\ Init
    /\ tools[Root] = <<Tool(FALSE, FALSE, TRUE, FALSE)>>

SpecDelegation == InitDelegation /\ [][Next]_vars

(***************************************************************************)
(* Reading the logs                                                         *)
(***************************************************************************)
RunIds == DOMAIN runLog
Children(r) == {j \in RunIds : runLog[j].parent = r}
Ends(r) == {i \in DOMAIN retLog : retLog[i].run = r}
CallsOf(r) == {c \in DOMAIN backendLog : backendLog[c].run = r}
Callbacks(r) == {k \in DOMAIN cbLog : cbLog[k].run = r}
ToolCalls(r) == {k \in DOMAIN toolLog : toolLog[k].run = r}

\* run r has returned an envelope / an error envelope / a success envelope
ReturnedEnvelope(r) == \E i \in Ends(r) : ~retLog[i].raised
ReturnedError(r) ==
    \E i \in Ends(r) : ~retLog[i].raised /\ IsError(retLog[i].envelope[1])
ReturnedSuccess(r) ==
    \E i \in Ends(r) : ~retLog[i].raised /\ ~IsError(retLog[i].envelope[1])
EnvelopeOf(r) ==
    retLog[CHOOSE i \in Ends(r) : ~retLog[i].raised].envelope[1]

\* the k-th smallest element of a set of numbers
Kth(S, k) == CHOOSE x \in S : Cardinality({y \in S : y < x}) = k - 1

(***************************************************************************)
(* C1: every call of Agent.run ends by returning an envelope; no exception  *)
(* leaves run, whichever step fails.                                        *)
(* The code checks the client and builds the prompt before its try block,   *)
(* so this is violated.                                                     *)
(***************************************************************************)
C1_RunNeverRaises ==
    /\ \A i \in DOMAIN retLog : ~retLog[i].raised
    /\ \A t \in DOMAIN tasks : tasks[t].status /= "raised"

(***************************************************************************)
(* C2: when an agent's own backend call raises, that invocation of run      *)
(* returns the envelope {agent: name, error: message, output_key}, it has   *)
(* run none of its sub-agents (so no sub-agent has called the backend for   *)
(* it) and it has not called its callback.                                  *)
(***************************************************************************)
C2_BackendFailureEndsAgent ==
    \A c \in DOMAIN backendLog :
        backendLog[c].outcome = "raised" =>
            LET r == backendLog[c].run
                a == runLog[r].agent
            IN  /\ Cardinality(Ends(r)) = 1
                /\ ReturnedEnvelope(r)
                /\ EnvelopeOf(r) = [agent |-> a, error |-> BackendError,
                                    output_key |-> output_key(a)]
                /\ Children(r) = {}
                /\ Callbacks(r) = {}
                /\ \A d \in DOMAIN backendLog :
                      d > c /\ backendLog[d].task = backendLog[c].task
                        => runLog[backendLog[d].run].parent /= r

\* the backend call of an agent that has sub-agents and a callback raised
C2_Witness ==
    \E c \in DOMAIN backendLog :
        /\ backendLog[c].outcome = "raised"
        /\ sub_agents[backendLog[c].request.agent] /= <<>>
        /\ after_agent_callback(backendLog[c].request.agent)

(***************************************************************************)
(* C3: in one parent invocation, once the run of a sub-agent has returned   *)
(* an error envelope, no later sub-agent of that parent is run.             *)
(* The loop of _execute_sub_agents reads result.get("response", "") and     *)
(* goes on, so this is violated.                                            *)
(***************************************************************************)
C3_NoStageAfterFailedStage ==
    \A i \in RunIds, j \in RunIds :
        (/\ runLog[i].parent /= 0
         /\ runLog[j].parent = runLog[i].parent
         /\ i < j)
        => ~ReturnedError(i)

(***************************************************************************)
(* C4: when an invocation of a parent has run all its sub-agents and all    *)
(* have returned success envelopes, the parent's response is its own        *)
(* initial response under "[parent Initial Response]" followed by each      *)
(* sub-agent's response under "[sub Response]", in registration order, and  *)
(* every sub-agent was given the parent's initial response as its prompt.   *)
(***************************************************************************)
\* the text _execute_llm returned to run r, and the response run r holds
\* after line 114 (what the callback is given, or the envelope carries)
InitialResponse(r) == backendLog[Kth(CallsOf(r), 1)].result[1]
Augmented(r) ==
    IF after_agent_callback(runLog[r].agent)
    THEN cbLog[Kth(Callbacks(r), 1)].response
    ELSE EnvelopeOf(r).response

AllSubAgentsSucceeded(r) ==
    /\ sub_agents[runLog[r].agent] /= <<>>
    /\ Cardinality(Children(r)) = Len(sub_agents[runLog[r].agent])
    /\ \A j \in Children(r) : ReturnedSuccess(j)
    /\ IF after_agent_callback(runLog[r].agent)
       THEN Callbacks(r) /= {}
       ELSE ReturnedSuccess(r)

Transcript(r) ==
    LET a == runLog[r].agent
        n == Len(sub_agents[a])
    IN  JoinTexts(<<"\n">>,
            << <<"[", a, " Initial Response]\n">> \o Str(InitialResponse(r)) >>
            \o [k \in 1..n |->
                    <<"\n[", sub_agents[a][k], " Response]\n">>
                    \o Str(EnvelopeOf(Kth(Children(r), k)).response)])

PlainRun(r) ==
    LET a == runLog[r].agent
    IN  /\ tools[a] = <<>>
        /\ sub_agents[a] = <<>>
        /\ ~after_agent_callback(a)
        /\ runLog[r].items = <<>>
        /\ \A i \in Ends(r) : ~retLog[i].raised

\* the text of a response that carries a text and no function call
CarriesText(response) ==
    /\ response.candidates /= <<>>
    /\ response.candidates[1].content /= <<>>
    /\ response.candidates[1].content[1].parts /= <<>>
    /\ \A i \in 1..Len(response.candidates[1].content[1].parts) :
          response.candidates[1].content[1].parts[i].function_call = <<>>
    /\ response.candidates[1].content[1].parts[1].text /= PyNone
ReturnedText(response) == response.candidates[1].content[1].parts[1].text

C5_OneCallVerbatim ==
    \A r \in RunIds :
        PlainRun(r) =>
            /\ Cardinality(CallsOf(r)) = 1
            /\ LET call == backendLog[Kth(CallsOf(r), 1)]
               IN  /\ call.request.contents = runLog[r].prompt
                   /\ Ends(r) /= {} => call.outcome /= "pending"
                   /\ (/\ call.outcome = "answered"
                       /\ CarriesText(call.response[1])
                       /\ Ends(r) /= {})
                        => /\ ReturnedEnvelope(r)
                           /\ EnvelopeOf(r) =
                                [agent |-> runLog[r].agent,
                                 response |-> ReturnedText(call.response[1]),
                                 output_key |-> output_key(runLog[r].agent)]

\* such a run was called with {} (not None) and the backend returned a text
C5_Witness ==
    \E r \in RunIds :
        /\ PlainRun(r)
        /\ runLog[r].context /= 0
        /\ runLog[r].parent = 0
        /\ ReturnedSuccess(r)
        /\ CarriesText(backendLog[Kth(CallsOf(r), 1)].response[1])

(***************************************************************************)
(* C6: when the backend requests a tool name that matches no tool of the    *)
(* agent, nothing is raised and no tool is invoked: the agent's text is the *)
(* JSON object {"error": "Tool <name> not found"}, the run does not end in  *)
(* an error envelope on that account, and the text is what the sub-agents   *)
(* are given as prompt and what the transcript shows as the parent's        *)
(* initial response.                                                        *)
(***************************************************************************)
HasCall(response) ==
    /\ response.candidates /= <<>>
    /\ response.candidates[1].content /= <<>>
    /\ \E i \in 1..Len(response.candidates[1].content[1].parts) :
          response.candidates[1].content[1].parts[i].function_call /= <<>>
RequestedCall(response) ==
    LET parts == response.candidates[1].content[1].parts
    IN  parts[Min({i \in 1..Len(parts) : parts[i].function_call /= <<>>})]
            .function_call[1]

Registered(a, name) == \E i \in 1..Len(tools[a]) : tools[a][i].name = name

UnregisteredCall(c) ==
    /\ backendLog[c].outcome = "answered"
    /\ HasCall(backendLog[c].response[1])
    /\ ~Registered(backendLog[c].request.agent,
                   RequestedCall(backendLog[c].response[1]).name)

IsPrefix(p, text) == Len(p) <= Len(text) /\ SubSeq(text, 1, Len(p)) = p

C6_UnknownToolDegradesGracefully ==
    \A c \in DOMAIN backendLog :
        UnregisteredCall(c) =>
            LET r == backendLog[c].run
                a == runLog[r].agent
                name == RequestedCall(backendLog[c].response[1]).name
                text == backendLog[c].result[1]
            IN  /\ backendLog[c].result /= <<>>
                /\ JsonLoads(text) =
                     [ok |-> TRUE,
                      value |-> << << <<"error">>, <<"Tool ", name, " not found">> >> >>]
                /\ ToolCalls(r) = {}
                /\ \A i \in Ends(r) :
                      /\ ~retLog[i].raised
                      /\ IsError(retLog[i].envelope[1]) => Callbacks(r) /= {}
                /\ \A j \in Children(r) : runLog[j].prompt = text
                /\ ReturnedSuccess(r) /\ Callbacks(r) = {} =>
                      IF sub_agents[a] = <<>>
                      THEN EnvelopeOf(r).response = text
                      ELSE IsPrefix(<<"[", a, " Initial Response]\n">> \o text,
                                    EnvelopeOf(r).response)

\* the run went on to its three sub-agents and returned a success envelope
C6_Witness ==
    \E c \in DOMAIN backendLog :
        /\ UnregisteredCall(c)
        /\ ReturnedSuccess(backendLog[c].run)
        /\ Cardinality(Children(backendLog[c].run)) = 3

(***************************************************************************)
(* C7: when the backend requests a registered tool and the tool does not    *)
(* fail, the tool is invoked exactly once with the call's arguments as      *)
(* keyword arguments and the agent's text, parsed as JSON, is the tool's    *)
(* return value, whether the executable is `execute` or a wrapped callable, *)
(* synchronous or asynchronous.                                             *)
(* The code awaits whatever `execute` returns and serialises whatever       *)
(* `func` returns, so a synchronous `execute` and an asynchronous `func`    *)
(* both end in a TypeError: this is violated.                               *)
(***************************************************************************)
RegisteredCall(c) ==
    /\ backendLog[c].outcome = "answered"
    /\ HasCall(backendLog[c].response[1])
    /\ Registered(backendLog[c].request.agent,
                  RequestedCall(backendLog[c].response[1]).name)

\* a tool body ran and raised
ToolFailed(r) ==
    \E k \in ToolCalls(r) : toolLog[k].call.ran /\ toolLog[k].call.result = <<>>

C7_RegisteredToolResultIsReturned ==
    \A c \in DOMAIN backendLog :
        RegisteredCall(c) /\ ~ToolFailed(backendLog[c].run) =>
            LET r == backendLog[c].run
                call == toolLog[Kth(ToolCalls(r), 1)].call
            IN  /\ Cardinality(ToolCalls(r)) = 1
                /\ call.tool = RequestedCall(backendLog[c].response[1]).name
                /\ call.kwargs = RequestedCall(backendLog[c].response[1]).args
                /\ call.ran
                /\ backendLog[c].result /= <<>>
                /\ JsonLoads(backendLog[c].result[1]) =
                     [ok |-> TRUE, value |-> call.result[1]]

(***************************************************************************)
(* C8: an agent that holds a client shares it with every agent reachable    *)
(* from it through sub_agents (initialize reaches the whole tree), so a run *)
(* ends as "not initialized" only when it is a top-level run of an agent    *)
(* that was never initialized, never inside a delegation chain; and every   *)
(* backend call is issued by an agent that holds a client, to that client.  *)
(***************************************************************************)
C8_InitializeReachesAll ==
    /\ \A a \in Agents :
          client[a] /= None => \A b \in Descendants(a) : client[b] = client[a]
    /\ \A i \in DOMAIN retLog :
          LET notInitialized == NotInitialized(retLog[i].agent)
          IN  /\ retLog[i].raised /\ retLog[i].message = notInitialized
                  => /\ runLog[retLog[i].run].parent = 0
                     /\ client[retLog[i].agent] = None
              /\ ~retLog[i].raised /\ IsError(retLog[i].envelope[1])
                  => \A b \in Agents :
                        retLog[i].envelope[1].error /= NotInitialized(b)
    /\ \A c \in DOMAIN backendLog :
          /\ client[backendLog[c].request.agent] /= None
          /\ backendLog[c].request.client = client[backendLog[c].request.agent]
          /\ backendLog[c].request.client
               = backendLog[Kth(CallsOf(Kth({r \in RunIds :
                    runLog[r].task = backendLog[c].task}, 1)), 1)].request.client

\* a sub-agent two levels below the initialized root has called the backend
C8_Witness ==
    \E c \in DOMAIN backendLog :
        LET r == backendLog[c].run
        IN  /\ runLog[r].parent /= 0
            /\ runLog[runLog[r].parent].parent /= 0
            /\ backendLog[c].request.client = "client 2"

(***************************************************************************)
(* C9: every envelope Agent.run returns carries the agent's name, the       *)
(* agent's output_key unchanged, and exactly one of `response` and `error`. *)
(***************************************************************************)
C9_EnvelopeShape ==
    \A i \in DOMAIN retLog :
        ~retLog[i].raised =>
            LET env == retLog[i].envelope[1]
            IN  /\ {"agent", "output_key"} \subseteq DOMAIN env
                /\ DOMAIN env \subseteq {"agent", "output_key", "response", "error"}
                /\ env.agent = retLog[i].agent
                /\ env.output_key = output_key(retLog[i].agent)
                /\ ("response" \in DOMAIN env) /= ("error" \in DOMAIN env)
                /\ \A t \in DOMAIN tasks :
                      tasks[t].status = "returned" /\ retLog[i].task = t
                      /\ runLog[retLog[i].run].parent = 0
                        => tasks[t].result = <<env>>

\* one chain has produced an error envelope and a success envelope
C9_Witness ==
    /\ \E i \in DOMAIN retLog :
          ~retLog[i].raised /\ IsError(retLog[i].envelope[1])
    /\ \E i \in DOMAIN retLog :
          /\ ~retLog[i].raised
          /\ ~IsError(retLog[i].envelope[1])
          /\ retLog[i].envelope[1].output_key = None

(***************************************************************************)
(* C10, as the specification states it: each call of the Runner's run       *)
(* invokes the root agent's run with the message's text as prompt and       *)
(* yields one final event whose text is the root agent's final response.    *)
(* Runner.run_async never calls the agent, so this is violated.             *)
(***************************************************************************)
MessageText(m) == m[1].parts[1].text[1]

HasText(m) ==
    /\ m /= <<>>
    /\ m[1].parts /= <<>>
    /\ m[1].parts[1].text /= <<>>

RECURSIVE TopRun(_)
TopRun(j) == IF runLog[j].parent = 0 THEN j ELSE TopRun(runLog[j].parent)

C11_SameContextInstance ==
    \A j \in RunIds :
        runLog[j].parent /= 0 /\ runLog[TopRun(j)].context /= 0
            => runLog[j].context = runLog[TopRun(j)].context

(***************************************************************************)
(* C12: in the wired pipeline the root's backend call is answered before    *)
(* any stage is run; the stages run are taxonomist, trend_spotter,          *)
(* strategist in that order; a stage is not started before the run of the   *)
(* stage ahead of it has ended; the root does not end before its stages;    *)
(* and at most one backend call of the chain is in flight.                  *)
(***************************************************************************)
Stages == <<"taxonomist", "trend_spotter", "strategist">>

InFlight(t) ==
    {c \in DOMAIN backendLog :
        backendLog[c].task = t /\ backendLog[c].outcome = "pending"}

C12_StagesInOrderNoOverlap ==
    \A r \in RunIds :
        (runLog[r].agent = Root /\ runLog[r].parent = 0 /\ sub_agents = Wired) =>
            LET kids == Children(r)
            IN  /\ Cardinality(kids) <= Len(Stages)
                /\ \A k \in 1..Cardinality(kids) :
                      runLog[Kth(kids, k)].agent = Stages[k]
                /\ kids /= {} =>
                      backendLog[Kth(CallsOf(r), 1)].outcome = "answered"
                /\ \A i \in kids, j \in kids :
                      i < j => /\ Ends(i) /= {}
                               /\ \A c \in CallsOf(i), d \in CallsOf(j) :
                                     c < d /\ backendLog[c].outcome /= "pending"
                /\ Ends(r) /= {} => \A j \in kids : Ends(j) /= {}
                /\ Cardinality(InFlight(runLog[r].task)) <= 1

\* the three stages have run and returned, and the root has returned
C12_Witness ==
    \E r \in RunIds :
        /\ runLog[r].agent = Root
        /\ sub_agents = Wired
        /\ Cardinality(Children(r)) = 3
        /\ \A j \in Children(r) : ReturnedSuccess(j)
        /\ ReturnedSuccess(r)

(***************************************************************************)
(* C13: whatever the callback of a sub-agent returns (or if it raises),     *)
(* every sub-agent of the same parent is handed the parent's own response   *)
(* as prompt and the same context instance as the first one; the callback's *)
(* value shows only under that sub-agent's label in the parent's            *)
(* transcript, the other sections being the other sub-agents' own texts.    *)
(***************************************************************************)
\* the text a parent shows for the run j of a sub-agent: result.get("response", "")
Shown(j) ==
    LET env == EnvelopeOf(j)
    IN  IF IsError(env) THEN EmptyStr ELSE env.response

\* the first k sections of the transcript of r, joined
CombinedSoFar(r, k) ==
    LET a == runLog[r].agent
        kids == Children(r)
    IN  JoinTexts(<<"\n">>,
            << <<"[", a, " Initial Response]\n">> \o Str(InitialResponse(r)) >>
            \o [i \in 1..k |->
                    <<"\n[", sub_agents[a][i], " Response]\n">>
                    \o Str(Shown(Kth(kids, i)))])

\* run r holds its response of line 114: all sub-agents have returned
HoldsAugmented(r) ==
    /\ sub_agents[runLog[r].agent] /= <<>>
    /\ IF after_agent_callback(runLog[r].agent)
       THEN Callbacks(r) /= {}
       ELSE ReturnedSuccess(r)

C13_CallbackOnlyChangesOwnSection ==
    \A r \in RunIds :
        /\ LET kids == Children(r)
               first == runLog[Kth(kids, 1)]
               parent_response == InitialResponse(r)
           IN  \A j \in kids :
                  /\ runLog[j].prompt = parent_response
                  /\ runLog[j].context = first.context
                  /\ runLog[j].items = first.items
        /\ HoldsAugmented(r) =>
              /\ Cardinality(Children(r)) = Len(sub_agents[runLog[r].agent])
              /\ Augmented(r) = CombinedSoFar(r, Len(sub_agents[runLog[r].agent]))

\* taxonomist's callback replaced its text, and the stages after it were run
C13_Witness ==
    \E r \in RunIds :
        /\ ReturnedSuccess(r)
        /\ Cardinality(Children(r)) = 3
        /\ LET j == Kth(Children(r), 1)
           IN  /\ Callbacks(j) /= {}
               /\ cbLog[Kth(Callbacks(j), 1)].outcome = "truthy"
               /\ Shown(j) = CallbackValue
               /\ Shown(j) /= InitialResponse(r)
               /\ runLog[Kth(Children(r), 2)].prompt = InitialResponse(r)

(***************************************************************************)
(* C14: an agent with a callback calls it at most once per run and exactly  *)
(* once in a run that returns a success envelope, after all its sub-agents  *)
(* have returned, with the response of line 114 (its own text, or the       *)
(* transcript when it has sub-agents); the envelope's response is what the  *)
(* callback returned when that is truthy and the response of line 114       *)
(* otherwise.  An agent without a callback calls none.                      *)
(***************************************************************************)
C14_CallbackOncePerRun ==
    \A r \in RunIds :
        LET a == runLog[r].agent
        IN  IF ~after_agent_callback(a) THEN Callbacks(r) = {}
            ELSE /\ Cardinality(Callbacks(r)) <= 1
                 /\ ReturnedSuccess(r) => Cardinality(Callbacks(r)) = 1
                 /\ Callbacks(r) /= {} =>
                      LET cb == cbLog[Kth(Callbacks(r), 1)]
                      IN  /\ Cardinality(Children(r)) = Len(sub_agents[a])
                          /\ \A j \in Children(r) : ReturnedEnvelope(j)
                          /\ cb.response =
                               IF sub_agents[a] = <<>> THEN InitialResponse(r)
                               ELSE CombinedSoFar(r, Len(sub_agents[a]))
                          /\ cb.outcome = "raise" /\ Ends(r) /= {} => ReturnedError(r)
                          /\ ReturnedSuccess(r) =>
                               EnvelopeOf(r).response =
                                  IF cb.outcome = "truthy" THEN CallbackValue
                                  ELSE cb.response

\* a callback of an agent with two sub-agents returned a value that replaced
\* the transcript
C14_Witness ==
    \E r \in RunIds :
        /\ after_agent_callback(runLog[r].agent)
        /\ Cardinality(Children(r)) = 2
        /\ ReturnedSuccess(r)
        /\ cbLog[Kth(Callbacks(r), 1)].outcome = "truthy"
        /\ cbLog[Kth(Callbacks(r), 1)].response /= CallbackValue
        /\ EnvelopeOf(r).response = CallbackValue

(***************************************************************************)
(* C15: when the backend's response carries no function call and no text    *)
(* (no candidates, a candidate without parts, a first part without text)    *)
(* the agent's text is the empty string; and when a part of the first       *)
(* candidate carries a function call, the text is the tool's and not the    *)
(* model's.                                                                 *)
(* The code returns parts[0].text as it is (None) and str(response.text)    *)
(* ("None"), so this is violated.                                           *)
(***************************************************************************)
NoCallNoText(response) ==
    \/ response.candidates = <<>>
    \/ /\ response.candidates[1].content /= <<>>
       /\ LET parts == response.candidates[1].content[1].parts
          IN  \/ parts = <<>>
              \/ /\ \A i \in 1..Len(parts) : parts[i].function_call = <<>>
                 /\ parts[1].text = PyNone

C15_NoTextGivesEmptyString ==
    \A c \in DOMAIN backendLog :
        backendLog[c].outcome = "answered" =>
            LET response == backendLog[c].response[1]
            IN  /\ NoCallNoText(response) => backendLog[c].result = <<EmptyStr>>
                /\ HasCall(response) =>
                      \A i \in 1..Len(response.text) :
                          backendLog[c].result /= <<response.text[i]>>

(***************************************************************************)
(* C16: the first sub-agent is given the parent's response as prompt, and   *)
(* each later one the output produced just before it: the text of the       *)
(* sub-agent ahead of it, or the combined response so far.                  *)
(* The loop passes parent_response to every sub-agent, so this is violated. *)
(***************************************************************************)
C16_PromptIsPrecedingOutput ==
    \A r \in RunIds :
        \A k \in 1..Cardinality(Children(r)) :
            LET j == Kth(Children(r), k)
            IN  IF k = 1 THEN runLog[j].prompt = InitialResponse(r)
                ELSE runLog[j].prompt \in
                        { Shown(Kth(Children(r), k - 1)), CombinedSoFar(r, k - 1) }

(***************************************************************************)
(* Two top-level runs of the root agent on one event loop, as made by       *)
(*   await asyncio.gather(root.run(p, ctx1), root.run(p, ctx2))             *)
(* on the wired tree, each with a context map of its own.  The two          *)
(* coroutines interleave where they await the backend (line 248).           *)
(***************************************************************************)
GatherTaskIds == {1, 2}

GatherContext(t) == IF t = 1 THEN CtxA ELSE CtxB

InitGather ==
    /\ sub_agents = Wired
    /\ tools = [a \in Agents |->
                  IF a = Root THEN <<Tool(FALSE, FALSE, TRUE, FALSE)>> ELSE <<>>]
    /\ client = [a \in Agents |-> None]
    /\ ctxHeap = <<EmptyDict, EmptyDict, EmptyDict, EmptyDict>>
    /\ context = [a \in Agents |-> AgentIndex(a)]
    /\ tasks = [t \in GatherTaskIds |-> IdleTask]
    /\ active = 0
    /\ backendLog = <<>>
    /\ runLog = <<>>
    /\ toolLog = <<>>
    /\ cbLog = <<>>
    /\ retLog = <<>>
    /\ events = <<>>
    /\ runnerCalls = 0
    /\ faults = 0
    /\ questions_data = <<>>
    /\ statistics = <<>>

\* the same lines of Agent.run as RunCall, entered by either coroutine on the
\* initialized root
GatherCall(t) ==
    /\ client[Root] /= None
    /\ Start(t, Root, <<"Analyze x.pdf">>, <<GatherContext(t)>>)

\* every backend call is answered with the same text, or raises; callbacks
\* return nothing
NextGather ==
    \/ Initialize(Root, "client 1")
    \/ \E t \in GatherTaskIds : GatherCall(t)
    \/ \E t \in GatherTaskIds : BackendRaise(t)
    \/ \E t \in GatherTaskIds : BackendRespond(t, CHOOSE r \in TextResponses : TRUE, "return")
    \/ \E t \in GatherTaskIds : SubAgentCall(t)
    \/ \E t \in GatherTaskIds : RunReturn(t, "falsy")

SpecGather == InitGather /\ [][NextGather]_vars

(***************************************************************************)
(* C17: when two top-level runs of one agent tree overlap, each run builds  *)
(* every prompt of its chain from the context map it was given, and hands   *)
(* that map, and not the other run's, to its sub-agents.                    *)
(* self.context is a field of the shared Agent object: the second run       *)
(* overwrites it while the first is suspended, so this is violated.         *)
(***************************************************************************)
C17_ContextStaysLocal ==
    \A j \in RunIds :
        LET top == TopRun(j)
        IN  /\ runLog[j].context = runLog[top].context
            /\ runLog[j].items = GatherContext(runLog[j].task)
            /\ \A c \in CallsOf(j) :
                  backendLog[c].request.contents
                    = _build_full_prompt(runLog[j].prompt,
                                         GatherContext(runLog[j].task))

(***************************************************************************)
(* analyze_statistics (src/profiler_agent/tools.py).  A bloom level is a    *)
(* text spelled letter by letter, so that lower() is computed; a topic is a *)
(* text of one token.  A dict's key that may be absent is a sequence of     *)
(* length 0 or 1.  A Counter, and the dict made of it, is the sequence of   *)
(* its keys with their counts in insertion order.                           *)
(***************************************************************************)
UpperLetters == <<"A", "B", "C", "D", "E", "F", "G", "H", "I", "J", "K", "L", "M",
                  "N", "O", "P", "Q", "R", "S", "T", "U", "V", "W", "X", "Y", "Z">>
LowerLetters == <<"a", "b", "c", "d", "e", "f", "g", "h", "i", "j", "k", "l", "m",
                  "n", "o", "p", "q", "r", "s", "t", "u", "v", "w", "x", "y", "z">>

Remember == <<"R", "e", "m", "e", "m", "b", "e", "r">>
UNDERSTAND == <<"U", "N", "D", "E", "R", "S", "T", "A", "N", "D">>
apply == <<"a", "p", "p", "l", "y">>
Evaluate == <<"E", "v", "a", "l", "u", "a", "t", "e">>
Recall == <<"R", "e", "c", "a", "l", "l">>
Unknown == <<"U", "n", "k", "n", "o", "w", "n">>

Topics == { <<"Physics">>, <<"Math">> }
BloomLevels == { Remember, UNDERSTAND, apply, Evaluate, Recall }

\* a question record; q.get sees the key's value, or nothing
Question(topic, bloom_level) ==
    [isdict |-> TRUE, topic |-> topic, bloom_level |-> bloom_level]
\* an element of the list that is not a dict
NotADict == [isdict |-> FALSE, topic |-> <<>>, bloom_level |-> <<>>]

Elements ==
    { Question(<<t>>, <<b>>) : t \in Topics, b \in BloomLevels }
    \cup { Question(<<>>, << Remember >>), Question(<< <<"Math">> >>, <<>>),
           Question(<< <<"Math">> >>, << PyNone >>), NotADict }

\* the lists of at most n elements
Lists(n) == UNION { [1..k -> Elements] : k \in 0..n }

\* the parsed argument: a list, a dict (with "questions" or without), or
\* anything else
QuestionsData(n) ==
    { [type |-> "list", questions |-> <<l>>] : l \in Lists(n) }
    \cup { [type |-> "dict", questions |-> <<l>>] : l \in Lists(n) }
    \cup { [type |-> "dict", questions |-> <<>>], [type |-> "int", questions |-> <<>>] }

\* a variant of lower() that leaves the text as written
lowerAsWritten(text) == text

\* str.lower
lower(text) ==
    [i \in 1..Len(text) |->
        IF \E k \in 1..Len(UpperLetters) : UpperLetters[k] = text[i]
        THEN LowerLetters[CHOOSE k \in 1..Len(UpperLetters) : UpperLetters[k] = text[i]]
        ELSE text[i]]

LowerOrder == { <<"r", "e", "m", "e", "m", "b", "e", "r">>,
                <<"u", "n", "d", "e", "r", "s", "t", "a", "n", "d">> }
HigherOrder == { <<"a", "p", "p", "l", "y">>,
                 <<"a", "n", "a", "l", "y", "z", "e">>,
                 <<"e", "v", "a", "l", "u", "a", "t", "e">>,
                 <<"c", "r", "e", "a", "t", "e">> }

\* Counter(keys)
RECURSIVE Counter(_, _)
Counter(keys, acc) ==
    IF keys = <<>> THEN acc
    ELSE LET key == keys[1]
             seen == \E i \in 1..Len(acc) : acc[i].key = key
         IN  Counter(Tail(keys),
                IF seen
                THEN [i \in 1..Len(acc) |->
                        IF acc[i].key = key
                        THEN [acc[i] EXCEPT !.count = @ + 1] ELSE acc[i]]
                ELSE Append(acc, [key |-> key, count |-> 1]))

\* sum(count for level, count in freq.items() if level.lower() in levels)
RECURSIVE SumCounts(_, _)
SumCounts(freq, levels) ==
    IF freq = <<>> THEN 0
    ELSE (IF lower(freq[1].key) \in levels THEN freq[1].count ELSE 0)
         + SumCounts(Tail(freq), levels)

\* Counter.most_common(n): by count, largest first, ties in insertion order
RECURSIVE most_common(_, _)
most_common(freq, n) ==
    IF freq = <<>> \/ n = 0 THEN <<>>
    ELSE LET best == CHOOSE i \in 1..Len(freq) :
                        /\ \A j \in 1..Len(freq) : freq[j].count <= freq[i].count
                        /\ \A j \in 1..(i - 1) : freq[j].count < freq[i].count
             rest == [j \in 1..(Len(freq) - 1) |->
                        IF j < best THEN freq[j] ELSE freq[j + 1]]
         IN  <<freq[best]>> \o most_common(rest, n - 1)

\* the values q.get(key, "Unknown") of the dicts of a list of elements
RECURSIVE Collect(_, _)
Collect(questions, key) ==
    IF questions = <<>> THEN <<>>
    ELSE LET q == questions[1]
             value == IF key = "topic" THEN q.topic ELSE q.bloom_level
         IN  (IF q.isdict
              THEN << IF value = <<>> THEN (IF key = "topic" THEN <<"Unknown">>
                                            ELSE Unknown)
                      ELSE value[1] >>
              ELSE <<>>)
             \o Collect(Tail(questions), key)

analyze_statistics(data) ==
    IF data.type \notin {"list", "dict"}
    THEN [error |-> <<"Invalid input format">>]
    ELSE LET questions == IF data.questions = <<>> THEN <<>> ELSE data.questions[1]
             topics == Collect(questions, "topic")
             bloom_levels == Collect(questions, "bloom_level")
             topic_freq == Counter(topics, <<>>)
             bloom_freq == Counter(bloom_levels, <<>>)
         IN  \* None has no lower()
             IF \E i \in 1..Len(bloom_levels) : bloom_levels[i] = PyNone
             THEN [error |-> <<"Failed to analyze statistics: ",
                               "'NoneType' object has no attribute 'lower'">>]
             ELSE [total_questions |-> Len(questions),
                   topic_distribution |-> topic_freq,
                   bloom_distribution |-> bloom_freq,
                   top_topics |-> most_common(topic_freq, 5),
                   cognitive_complexity |->
                      [lower_order |-> SumCounts(bloom_freq, LowerOrder),
                       higher_order |-> SumCounts(bloom_freq, HigherOrder)]]

\* a call analyze_statistics(questions_data) is about to be made
InitStatistics ==
    /\ sub_agents = Wired
    /\ tools = [a \in Agents |->
                  IF a = Root THEN <<Tool(FALSE, FALSE, TRUE, FALSE)>> ELSE <<>>]
    /\ client = [a \in Agents |-> None]
    /\ ctxHeap = <<EmptyDict, EmptyDict, EmptyDict, EmptyDict>>
    /\ context = [a \in Agents |-> AgentIndex(a)]
    /\ tasks = [t \in TaskIds |-> IdleTask]
    /\ active = 0
    /\ backendLog = <<>>
    /\ runLog = <<>>
    /\ toolLog = <<>>
    /\ cbLog = <<>>
    /\ retLog = <<>>
    /\ events = <<>>
    /\ runnerCalls = 0
    /\ faults = 0
    /\ questions_data \in { <<d>> : d \in QuestionsData(MaxQuestions) }
    /\ statistics = <<>>

AnalyzeStatistics ==
    /\ questions_data /= <<>>
    /\ statistics = <<>>
    /\ statistics' = <<analyze_statistics(questions_data[1])>>
    /\ UNCHANGED <<sub_agents, tools, client, context, ctxHeap, tasks, active,
                   backendLog, runLog, toolLog, cbLog, retLog, events,
                   runnerCalls, faults, questions_data>>

NextStatistics == AnalyzeStatistics

SpecStatistics == InitStatistics /\ [][NextStatistics]_vars

(***************************************************************************)
(* C18: for a list of question records (dicts that carry a topic and a      *)
(* bloom_level, both texts), given as such or under "questions",            *)
(* analyze_statistics returns no error; topic_distribution and              *)
(* bloom_distribution hold, for exactly the topics and levels that occur,   *)
(* the number of records that carry them; lower_order is the number of      *)
(* records whose level is remember or understand and higher_order the       *)
(* number whose level is apply, analyze, evaluate or create, in any case of *)
(* letters; lower_order + higher_order <= total_questions; and              *)
(* total_questions is the sum of the topic counts.                          *)
(***************************************************************************)
\* c and d are the same letter, in the same or in different case
SameLetter(c, d) ==
    \/ c = d
    \/ \E k \in 1..Len(UpperLetters) :
          {c, d} = {UpperLetters[k], LowerLetters[k]}

\* the level is the word, case-insensitively
IsLevel(level, word) ==
    /\ Len(level) = Len(word)
    /\ \A i \in 1..Len(word) : SameLetter(level[i], word[i])

IsLowerOrder(level) ==
    IsLevel(level, <<"r", "e", "m", "e", "m", "b", "e", "r">>) \/ IsLevel(level, <<"u", "n", "d", "e", "r", "s", "t", "a", "n", "d">>)
IsHigherOrder(level) ==
    \/ IsLevel(level, <<"a", "p", "p", "l", "y">>) \/ IsLevel(level, <<"a", "n", "a", "l", "y", "z", "e">>)
    \/ IsLevel(level, <<"e", "v", "a", "l", "u", "a", "t", "e">>) \/ IsLevel(level, <<"c", "r", "e", "a", "t", "e">>)

IsRecord(q) ==
    /\ q.isdict
    /\ q.topic /= <<>>
    /\ q.bloom_level /= <<>> /\ q.bloom_level[1] /= PyNone

GivenList(data) ==
    /\ data.type \in {"list", "dict"}
    /\ data.questions /= <<>>
    /\ \A i \in 1..Len(data.questions[1]) : IsRecord(data.questions[1][i])

\* a distribution says: exactly the values of `values`, each with the number
\* of times it occurs
IsFrequencyCount(distribution, values) ==
    /\ {distribution[i].key : i \in 1..Len(distribution)}
         = {values[i] : i \in 1..Len(values)}
    /\ \A i \in 1..Len(distribution) :
          /\ distribution[i].count
               = Cardinality({j \in 1..Len(values) : values[j] = distribution[i].key})
          /\ \A j \in 1..Len(distribution) :
                distribution[j].key = distribution[i].key => j = i

RECURSIVE SumOfCounts(_)
SumOfCounts(distribution) ==
    IF distribution = <<>> THEN 0
    ELSE distribution[1].count + SumOfCounts(Tail(distribution))

C18_StatisticsAreFrequencyCounts ==
    (statistics /= <<>> /\ GivenList(questions_data[1])) =>
        LET qs == questions_data[1].questions[1]
            out == statistics[1]
        IN  /\ "error" \notin DOMAIN out
            /\ IsFrequencyCount(out.topic_distribution,
                                [i \in 1..Len(qs) |-> qs[i].topic[1]])
            /\ IsFrequencyCount(out.bloom_distribution,
                                [i \in 1..Len(qs) |-> qs[i].bloom_level[1]])
            /\ out.cognitive_complexity.lower_order
                 = Cardinality({i \in 1..Len(qs) : IsLowerOrder(qs[i].bloom_level[1])})
            /\ out.cognitive_complexity.higher_order
                 = Cardinality({i \in 1..Len(qs) : IsHigherOrder(qs[i].bloom_level[1])})
            /\ out.cognitive_complexity.lower_order
                 + out.cognitive_complexity.higher_order <= out.total_questions
            /\ out.total_questions = SumOfCounts(out.topic_distribution)
            /\ out.total_questions = Len(qs)

\* three records of two topics: one "Remember", one "UNDERSTAND" or "apply"
\* written in another case, one of a level in neither group
C18_Witness ==
    /\ statistics /= <<>>
    /\ GivenList(questions_data[1])
    /\ Len(questions_data[1].questions[1]) = 3
    /\ Len(statistics[1].topic_distribution) = 2
    /\ statistics[1].cognitive_complexity.lower_order = 1
    /\ statistics[1].cognitive_complexity.higher_order = 1
    /\ \E i \in 1..3 : questions_data[1].questions[1][i].bloom_level[1] = Remember

====
